---- MODULE Spec2Model ----
(***************************************************************************)
(* A model of Examples/MobileNets/convert/convert.py: one sequential pass  *)
(* over the layers of a Caffe model that folds each BatchNorm + Scale pair *)
(* into the convolution before it and writes the weights and biases as raw *)
(* float32 files.                                                          *)
(*                                                                         *)
(* Names are sequences of one-character strings, so that the slices        *)
(* name[-3:], name[-6:] and str.replace act on characters.  A tensor is a  *)
(* record [shape, data] with data in row-major (C) order, which is the     *)
(* order ndarray.tofile writes.  Numbers are kept exact: the triple        *)
(* <<c, k, v>> stands for the real number c + k / sqrt(v + epsilon), which *)
(* is closed under the arithmetic the script performs on its inputs.       *)
(* float32 rounding is not modelled.                                       *)
(***************************************************************************)
EXTENDS Integers, Sequences, FiniteSets, TLC

VARIABLES layers, li, bi, layer_name, weights, mean, variance, gamma, beta,
          writes, status, error, errs, wpos, resolved

vars == <<layers, li, bi, layer_name, weights, mean, variance, gamma, beta,
          writes, status, error, errs, wpos, resolved>>

----------------------------------------------------------------------------
(* Bounds of the model. *)

\* Longest layer sequence of the protocol specification Spec.
MaxLayers == 4

\* Longest layer sequence of the naming specification SpecNames.
MaxNamed == 2

\* Largest extent of one axis of a weight blob in SpecFold.
MaxDim == 2

----------------------------------------------------------------------------
(* Python values. *)

\* None, for a variable that holds an ndarray or None: no ndarray has an
\* empty shape together with empty data (a rank-0 array has one element).
None == [shape |-> <<>>, data |-> <<>>]

\* None, for layer_name: no layer name is this one-element sequence, since
\* its element is not a single character.
NoName == <<"None">>

\* No position: the position of a weight blob when none has been seen.
NoPos == <<0, 0>>

----------------------------------------------------------------------------
(* Exact numbers: <<c, k, v>> is c + k / sqrt(v + epsilon). *)

\* np.array(blob.data, dtype=np.float32) on one float32 payload value.
F32(x) == <<x, 0, 0>>

\* a * b, elementwise, for two input values.
NumMul(a, b) == <<a[1] * b[1], 0, 0>>

\* nan, the float32 that is not a number: no root is taken of -1 + epsilon.
NaN == <<0, 0, -1>>

\* a / sqrt(v + epsilon) for a product a of input values and a variance v:
\* np.sqrt of a negative number is nan, and so is every quotient by it.
NumDivRoot(a, v) ==
    IF v[1] < 0 THEN NaN
    ELSE IF a[1] = 0 THEN <<0, 0, 0>>
    ELSE <<0, a[1], v[1]>>

\* a - b for an input value a and a quotient b = k / sqrt(v + epsilon).
NumSub(a, b) == IF b = NaN THEN NaN ELSE <<a[1] - b[1], 0 - b[2], b[3]>>

----------------------------------------------------------------------------
(* ndarray: shape and row-major data. *)

RECURSIVE Prod(_)
Prod(s) == IF s = <<>> THEN 1 ELSE Head(s) * Prod(Tail(s))

\* The row-major stride of axis k of shape s.
Stride(s, k) == Prod(SubSeq(s, k + 1, Len(s)))

\* The multi-index (0-based coordinates) of the 0-based flat index f.
Unravel(f, s) == [k \in 1..Len(s) |-> (f \div Stride(s, k)) % s[k]]

\* The 0-based flat index of the multi-index ix.
RECURSIVE RavelFrom(_, _, _)
RavelFrom(ix, s, k) ==
    IF k > Len(s) THEN 0 ELSE ix[k] * Stride(s, k) + RavelFrom(ix, s, k + 1)

Ravel(ix, s) == RavelFrom(ix, s, 1)

\* The element of tensor t at the multi-index ix.
At(t, ix) == t.data[Ravel(ix, t.shape) + 1]

\* np.array(data, dtype=np.float32): a rank-1 array.
Array1(data) == [shape |-> <<Len(data)>>, data |-> [i \in 1..Len(data) |-> F32(data[i])]]

\* What an expression yields when it raises the exception kind.
Raised(kind) == [raised |-> kind]

\* The shape ndarray.reshape(shape) gives an array of n values: one
\* dimension may be negative and is then inferred from n and the other
\* dimensions; reshape raises ValueError on a second negative dimension, on
\* one that cannot be inferred, and on a shape that has not n places.
ReshapeShape(n, shape) ==
    LET unknown == { k \in 1..Len(shape) : shape[k] < 0 }
        known   == Prod([k \in 1..Len(shape) |-> IF shape[k] < 0 THEN 1 ELSE shape[k]])
    IN  IF \E j, k \in unknown : j # k THEN Raised("ValueError")
        ELSE IF unknown = {}
             THEN (IF known = n THEN shape ELSE Raised("ValueError"))
        ELSE IF known = 0 \/ n % known # 0 THEN Raised("ValueError")
        ELSE [k \in 1..Len(shape) |-> IF shape[k] < 0 THEN n \div known ELSE shape[k]]

\* np.array(data, dtype=np.float32).reshape(shape)
Array(data, shape) ==
    IF ReshapeShape(Len(data), shape) = Raised("ValueError") THEN Raised("ValueError")
    ELSE [shape |-> ReshapeShape(Len(data), shape),
          data  |-> [i \in 1..Len(data) |-> F32(data[i])]]

\* t.reshape(shape): the same row-major data under another shape.
Reshape(t, shape) == [shape |-> shape, data |-> t.data]

\* The transpose of the array t, given as a value.
TransposeOf(t, axes) ==
    LET n  == Len(t.shape)
        sh == [k \in 1..n |-> t.shape[axes[k]]]
        Src(f) == LET jx == Unravel(f, sh)
                      ix == [d \in 1..n |-> jx[CHOOSE k \in 1..n : axes[k] = d]]
                  IN  Ravel(ix, t.shape)
    IN  [shape |-> sh, data |-> [f \in 1..Prod(sh) |-> t.data[Src(f - 1) + 1]]]

\* t.transpose(axes), axes counted from 1: axis k of the result is axis
\* axes[k] of t.  The operand is evaluated once, as numpy has it in memory,
\* before its elements are read.
Transpose(t, axes) ==
    CHOOSE r \in { TransposeOf(a, axes) : a \in {t} } : TRUE

\* Whether numpy can broadcast a rank-1 array of length n against the last
\* axis of shape s.
CanBroadcast(s, n) == s[Len(s)] = n \/ s[Len(s)] = 1 \/ n = 1

\* The shape of the broadcast of shape s with a rank-1 array of length n.
BroadcastShape(s, n) ==
    [k \in 1..Len(s) |-> IF k = Len(s) /\ s[k] = 1 THEN n ELSE s[k]]

\* a (op) b on two numbers, op one of "*", "/sqrt", "-".
Apply(op, a, b) ==
    CASE op = "*"     -> NumMul(a, b)
      [] op = "/sqrt" -> NumDivRoot(a, b)
      [] op = "-"     -> NumSub(a, b)

\* t (op) u for the arrays t and u, given as values.
ElementwiseOf(op, t, u) ==
    LET n  == u.shape[1]
        sh == BroadcastShape(t.shape, n)
        r  == Len(sh)
        L(f) == LET jx == Unravel(f, sh)
                    ix == [k \in 1..r |-> IF t.shape[k] = 1 THEN 0 ELSE jx[k]]
                IN  t.data[Ravel(ix, t.shape) + 1]
        R(f) == u.data[(IF n = 1 THEN 0 ELSE f % sh[r]) + 1]
    IN  IF u = None THEN [shape |-> t.shape, data |-> <<>>]      \* objects, t is empty
        ELSE IF t = None THEN [shape |-> u.shape, data |-> <<>>] \* objects, u is empty
        ELSE [shape |-> sh, data |-> [f \in 1..Prod(sh) |-> Apply(op, L(f - 1), R(f - 1))]]

\* t (op) u, elementwise with numpy broadcasting, for a rank-1 array u.
\* The operands are evaluated once before their elements are read.
Elementwise(op, t, u) ==
    CHOOSE r \in { ElementwiseOf(op, a, b) : a \in {t}, b \in {u} } : TRUE

----------------------------------------------------------------------------
(* Layer names and file names. *)

\* s[-n:] of Python: the last n characters, or all of s when it is shorter.
LastChars(s, n) == SubSeq(s, IF Len(s) > n THEN Len(s) - n + 1 ELSE 1, Len(s))

BnSuffix    == <<"/", "b", "n">>
ScaleSuffix == <<"/", "s", "c", "a", "l", "e">>
DwSuffix    == <<"/", "d", "w">>
WExt        == <<"_", "w", ".", "b", "i", "n">>
BExt        == <<"_", "b", ".", "b", "i", "n">>

\* layer.name[-3:] == "/bn"
IsBn(name) == LastChars(name, 3) = BnSuffix

\* layer.name[-6:] == "/scale"
IsScale(name) == LastChars(name, 6) = ScaleSuffix

\* layer_name[-3:] == "/dw"
IsDepthwiseName(name) == LastChars(name, 3) = DwSuffix

\* Mutant of Replace: the separator is deleted, as by replace("/", "").
ReplaceDeletes(s) == SelectSeq(s, LAMBDA ch : ch # "/")

\* out_name.replace("/", "_")
Replace(s) == [i \in 1..Len(s) |-> IF s[i] = "/" THEN "_" ELSE s[i]]

\* Mutant of OutName: the name is used as it is.
OutNameUnsanitized(name, ext) == name \o ext

\* out_name = name + "_w.bin" (or "_b.bin"); out_name = out_name.replace("/", "_")
OutName(name, ext) == Replace(name \o ext)

----------------------------------------------------------------------------
(* The fold of lines 98-136. *)

\* Mutant of ToFoldLayout: the depthwise weights are reshaped but keep the
\* channel axis first.
ToFoldLayoutChannelFirst(w, dw) ==
    IF dw THEN Reshape(w, <<w.shape[1], w.shape[3], w.shape[4]>>)
          ELSE Transpose(w, <<3, 4, 2, 1>>)

\* weights.reshape(shape[0], shape[2], shape[3]).transpose(1, 2, 0) for a
\* depthwise layer, weights.transpose(2, 3, 1, 0) otherwise.
ToFoldLayout(w, dw) ==
    IF dw THEN Transpose(Reshape(w, <<w.shape[1], w.shape[3], w.shape[4]>>), <<2, 3, 1>>)
          ELSE Transpose(w, <<3, 4, 2, 1>>)

\* np.sqrt(variance + epsilon), kept as the variances it is the root of.
SqrtVarEps(v) == v

\* Mutant of ScaleWeights: gamma is left out of the weights.
ScaleWeightsNoGamma(w, g, v) == Elementwise("/sqrt", w, SqrtVarEps(v))

\* weights * gamma / np.sqrt(variance + epsilon)
ScaleWeights(w, g, v) ==
    Elementwise("/sqrt", Elementwise("*", w, g), SqrtVarEps(v))

\* Mutant of ToMetalLayout: the last transpose is left out.
ToMetalLayoutSkipped(cw, dw) == cw

\* conv_weights.transpose(3, 0, 1, 2) unless depthwise.
ToMetalLayout(cw, dw) == IF dw THEN cw ELSE Transpose(cw, <<4, 1, 2, 3>>)

\* Mutant of ConvBias: gamma is left out of the bias.
ConvBiasNoGamma(b, m, g, v) ==
    Elementwise("-", b, Elementwise("/sqrt", m, SqrtVarEps(v)))

\* conv_bias = beta - mean * gamma / np.sqrt(variance + epsilon)
ConvBias(b, m, g, v) ==
    Elementwise("-", b,
                Elementwise("/sqrt", Elementwise("*", m, g), SqrtVarEps(v)))

\* The exception lines 110-119 raise, "" when they raise none: the name
\* test of line 110 and the reshape and transposes of lines 114-119, after
\* which weights holds the fold layout.
LayoutError(ln, w) ==
    IF ln = NoName THEN "TypeError"                  \* None[-3:]
    ELSE IF w = None THEN "AttributeError"           \* None.reshape, None.transpose
    ELSE IF IsDepthwiseName(ln) /\ Prod(w.shape) # w.shape[1] * w.shape[3] * w.shape[4]
         THEN "ValueError"                           \* reshape of another size
    ELSE ""

\* The exception t * u raises, "" when it raises none, for t and u each an
\* array or None.  An array times None is computed element by element on
\* objects: it raises TypeError at its first element, and is an empty array
\* of objects when the array has no element.
MulError(t, u) ==
    IF t = None /\ u = None THEN "TypeError"
    ELSE IF t = None THEN (IF Prod(u.shape) = 0 THEN "" ELSE "TypeError")
    ELSE IF u = None THEN (IF Prod(t.shape) = 0 THEN "" ELSE "TypeError")
    ELSE IF ~CanBroadcast(t.shape, u.shape[1]) THEN "ValueError"
    ELSE ""

\* The shape of t * u when MulError(t, u) is "".
MulShape(t, u) ==
    IF t = None THEN u.shape
    ELSE IF u = None THEN t.shape
    ELSE BroadcastShape(t.shape, u.shape[1])

\* The exception the beta branch raises, "" when it raises none, in the
\* order in which Python evaluates lines 110-136.  conv_weights is an array
\* of objects when gamma is None, conv_bias when mean or gamma is None, and
\* tofile raises OSError on an array of objects.
FoldError(ln, w, m, v, g, b) ==
    IF LayoutError(ln, w) # "" THEN LayoutError(ln, w)
    ELSE LET wf == ToFoldLayout(w, IsDepthwiseName(ln)) IN
         IF MulError(wf, g) # "" THEN MulError(wf, g)          \* weights * gamma
    ELSE IF v = None THEN "TypeError"                          \* None + epsilon
    ELSE IF ~CanBroadcast(MulShape(wf, g), v.shape[1]) THEN "ValueError"
    ELSE IF MulError(m, g) # "" THEN MulError(m, g)            \* mean * gamma
    ELSE IF ~CanBroadcast(MulShape(m, g), v.shape[1]) THEN "ValueError"
    ELSE IF ~CanBroadcast(b.shape, BroadcastShape(MulShape(m, g), v.shape[1])[1])
         THEN "ValueError"
    ELSE IF g = None THEN "OSError"                            \* conv_weights.tofile
    ELSE IF m = None THEN "OSError"                            \* conv_bias.tofile
    ELSE ""

\* conv_weights as handed to tofile.
ConvWeights(ln, w, g, v) ==
    LET dw == IsDepthwiseName(ln)
    IN  ToMetalLayout(ScaleWeights(ToFoldLayout(w, dw), g, v), dw)

\* One file written by ndarray.tofile: its name under out_dir and its
\* float32 values in order; shape is the shape of the array written, which
\* the file itself does not hold.
FileOf(name, ext, t) == [path |-> OutName(name, ext), data |-> t.data, shape |-> t.shape]

\* The files lines 132 and 136 leave in out_dir when the branch raises.
\* tofile opens its file for writing, which creates it, before it refuses an
\* array of objects: the file of the refused array is there, without a value.
FilesOnError(name, ln, w, m, v, g, b) ==
    IF FoldError(ln, w, m, v, g, b) # "OSError" THEN <<>>
    ELSE IF g = None                                   \* refused at line 132
         THEN << FileOf(name, WExt, ConvWeights(ln, w, g, v)) >>
    ELSE << FileOf(name, WExt, ConvWeights(ln, w, g, v)),  \* refused at line 136
            FileOf(name, BExt, ConvBias(b, m, g, v)) >>

----------------------------------------------------------------------------
(* The loops of lines 67-71. *)

Layer == layers[li]
Blob  == Layer.blobs[bi]

\* idx of enumerate(layer.blobs): the ordinal of the blob, from 0.
Idx == bi - 1

\* len(blob.shape.dim)
Rank(blob) == Len(blob.dim)

\* The first blob at or after layer j: "if layer.blobs" passes over the
\* layers that have none.  <<Len(ls) + 1, 1>> when no blob is left.
RECURSIVE FirstBlobFrom(_, _)
FirstBlobFrom(ls, j) ==
    IF j > Len(ls) THEN <<Len(ls) + 1, 1>>
    ELSE IF Len(ls[j].blobs) > 0 THEN <<j, 1>>
    ELSE FirstBlobFrom(ls, j + 1)

\* Mutant of NextPos: the rest of the layer's blobs is passed over.
NextPosSkipsLayer(ls, j, k) == FirstBlobFrom(ls, j + 1)

\* The blob the loops reach after blob k of layer j.
NextPos(ls, j, k) ==
    IF k < Len(ls[j].blobs) THEN <<j, k + 1>> ELSE FirstBlobFrom(ls, j + 1)

AtEnd == li > Len(layers)

\* The role lines 74-145 give the blob at the current position.
Role ==
    IF Rank(Blob) = 4 THEN "weights"
    ELSE IF Rank(Blob) # 1 THEN "other"
    ELSE IF IsBn(Layer.name)
         THEN (IF Idx = 0 THEN "mean" ELSE IF Idx = 1 THEN "variance" ELSE "ignored")
    ELSE IF IsScale(Layer.name)
         THEN (IF Idx = 0 THEN "gamma" ELSE IF Idx = 1 THEN "beta" ELSE "ignored")
    ELSE "bias"

\* The number of lines 99-102 that print "*** ERROR! ***".
MissingCount ==
    (IF weights = None THEN 1 ELSE 0) + (IF mean = None THEN 1 ELSE 0)
    + (IF variance = None THEN 1 ELSE 0) + (IF gamma = None THEN 1 ELSE 0)

Advance ==
    /\ li' = NextPos(layers, li, bi)[1]
    /\ bi' = NextPos(layers, li, bi)[2]

\* An uncaught exception ends the process at the current blob.  What the
\* branch assigned to weights and beta and what it wrote before the
\* exception stays.
Abort(kind) ==
    /\ status' = "aborted"
    /\ error' = kind
    /\ UNCHANGED <<li, bi, layer_name, mean, variance, gamma, wpos, resolved>>

\* Mutant of FoldReset: the folded weights stay held.
FoldResetKeepsWeights ==
    /\ weights' = weights
    /\ mean' = None
    /\ variance' = None
    /\ gamma' = None
    /\ beta' = None

\* What the variables hold after the fold: lines 138-142.
FoldReset ==
    /\ weights' = None
    /\ mean' = None
    /\ variance' = None
    /\ gamma' = None
    /\ beta' = None

\* Mutant of TerminalWeights: the held weights are brought into the layout
\* (C_out, kH, kW, C_in) of the folded convolutions before they are written.
TerminalWeightsMetal == Transpose(weights, <<1, 3, 4, 2>>)

\* The array the terminal branch writes as the weight file: line 150.
TerminalWeights == weights

\* The name the terminal branch derives its file names from: lines 148, 153.
TerminalStem == Layer.name

\* What the terminal branch leaves in the variables: lines 146-155 assign
\* none of them.
TerminalKeep == UNCHANGED <<layer_name, weights, mean, variance, gamma, beta>>

\* Lines 74-82: a convolution or fc7 weight blob.
OnWeights ==
    IF Array(Blob.data, Blob.dim) = Raised("ValueError")
    THEN /\ Abort("ValueError")                      \* line 81, before the assignment
         /\ UNCHANGED <<weights, beta, writes, errs>>
    ELSE /\ weights' = Array(Blob.data, Blob.dim)
         /\ layer_name' = Layer.name
         /\ wpos' = <<li, bi>>
         /\ Advance
         /\ UNCHANGED <<mean, variance, gamma, beta, writes, status, error, errs, resolved>>

\* Mutant of OnStatistic: a blob past ordinal 0 of a bn layer is stored as
\* the variance, one past ordinal 1 of a scale layer as gamma.
OnStatisticLastWins ==
    /\ mean' = IF Role = "mean" THEN Array1(Blob.data) ELSE mean
    /\ variance' = IF Role = "variance" \/ (Role = "ignored" /\ IsBn(Layer.name))
                   THEN Array1(Blob.data) ELSE variance
    /\ gamma' = IF Role = "gamma" \/ (Role = "ignored" /\ IsScale(Layer.name))
                THEN Array1(Blob.data) ELSE gamma
    /\ Advance
    /\ UNCHANGED <<layer_name, weights, beta, writes, status, error, errs, wpos, resolved>>

\* Lines 88-92 and 95-97: a statistic is stored; a blob past ordinal 1 of a
\* bn or scale layer, and (no else at line 84) a blob of another rank, is
\* passed over.
OnStatistic ==
    /\ mean' = IF Role = "mean" THEN Array1(Blob.data) ELSE mean
    /\ variance' = IF Role = "variance" THEN Array1(Blob.data) ELSE variance
    /\ gamma' = IF Role = "gamma" THEN Array1(Blob.data) ELSE gamma
    /\ Advance
    /\ UNCHANGED <<layer_name, weights, beta, writes, status, error, errs, wpos, resolved>>

\* Mutant of DepthwiseSource: the rule is chosen by the name of the scale
\* layer that carries beta, without its "/scale".
DepthwiseSourceFromScale == SubSeq(Layer.name, 1, Len(Layer.name) - 6)

\* The name whose last three characters choose the rule of the fold: line 110.
DepthwiseSource == layer_name

\* Lines 98-142: beta arrives, the fold is computed and written.
OnBeta ==
    LET b   == Array1(Blob.data)
        err == FoldError(DepthwiseSource, weights, mean, variance, gamma, b)
    IN  /\ errs' = errs + MissingCount
        /\ IF err # ""
           THEN /\ Abort(err)
                /\ beta' = b                         \* line 104
                /\ weights' = IF LayoutError(DepthwiseSource, weights) # "" THEN weights
                              ELSE ToFoldLayout(weights, IsDepthwiseName(DepthwiseSource))
                /\ writes' = writes \o              \* lines 132, 136
                      FilesOnError(layer_name, DepthwiseSource, weights, mean, variance,
                                   gamma, b)
           ELSE /\ writes' = writes \o
                      << FileOf(layer_name, WExt, ConvWeights(DepthwiseSource, weights, gamma, variance)),
                         FileOf(layer_name, BExt, ConvBias(b, mean, gamma, variance)) >>
                /\ resolved' = Append(resolved,
                      [kind |-> "fold", src |-> layer_name, stem |-> layer_name,
                       by |-> Layer.name, wat |-> wpos])
                /\ FoldReset
                /\ Advance
                /\ UNCHANGED <<layer_name, status, error, wpos>>

\* Lines 145-155: the bias of the last layer.
OnBias ==
    /\ errs' = errs + (IF weights = None THEN 1 ELSE 0)
    /\ IF weights = None
       THEN /\ Abort("AttributeError")                \* None.tofile
            /\ UNCHANGED <<weights, beta, writes>>
       ELSE /\ writes' = writes \o
                  << FileOf(TerminalStem, WExt, TerminalWeights),
                     FileOf(TerminalStem, BExt, Array1(Blob.data)) >>
            /\ resolved' = Append(resolved,
                  [kind |-> "terminal", src |-> layer_name, stem |-> TerminalStem,
                   by |-> Layer.name, wat |-> wpos])
            /\ TerminalKeep
            /\ Advance
            /\ UNCHANGED <<status, error, wpos>>

\* One iteration of the inner loop, line 71, on the blob at <<li, bi>>.
ProcessBlob ==
    /\ status = "running"
    /\ ~AtEnd
    /\ CASE Role = "weights" -> OnWeights
         [] Role = "beta"    -> OnBeta
         [] Role = "bias"    -> OnBias
         [] OTHER            -> OnStatistic
    /\ UNCHANGED layers

\* Line 157: the loops are over.
Finish ==
    /\ status = "running"
    /\ AtEnd
    /\ status' = "done"
    /\ UNCHANGED <<layers, li, bi, layer_name, weights, mean, variance, gamma, beta,
                   writes, error, errs, wpos, resolved>>

Next == ProcessBlob \/ Finish

\* Lines 60-65, and the loops before their first blob.
InitRun ==
    /\ li = FirstBlobFrom(layers, 1)[1]
    /\ bi = FirstBlobFrom(layers, 1)[2]
    /\ layer_name = NoName
    /\ weights = None
    /\ mean = None
    /\ variance = None
    /\ gamma = None
    /\ beta = None
    /\ writes = <<>>
    /\ status = "running"
    /\ error = ""
    /\ errs = 0
    /\ wpos = NoPos
    /\ resolved = <<>>

----------------------------------------------------------------------------
(* The inputs: layer sequences as caffe_pb2 hands them over (line 36). *)

\* The payload of blob k of layer j: n values, different in every position
\* and from every other blob's.
Payload(j, k, n) == [i \in 1..n |-> 1000 * j + 100 * k + i]

MkBlob(j, k, dim) == [dim |-> dim, data |-> Payload(j, k, Prod(dim))]

MkLayer(j, tpl) ==
    [name |-> tpl.name, blobs |-> [k \in 1..Len(tpl.dims) |-> MkBlob(j, k, tpl.dims[k])]]

\* The layer sequence with the names and blob shapes of tpls.
MkStream(tpls) == [j \in 1..Len(tpls) |-> MkLayer(j, tpls[j])]

ConvName  == <<"c">>
DwName    == <<"c", "/", "d", "w">>
BnName    == <<"c", "/", "b", "n">>
ScaleName == <<"c", "/", "s", "c", "a", "l", "e">>
FcName    == <<"f", "c">>
ReluName  == <<"r">>

\* The layers of the protocol specification: the layers of a MobileNet (a
\* convolution, a depthwise convolution, BatchNorm with its three blobs,
\* Scale, the fully-connected layer, a layer without blobs), and layers the
\* expected order does not have: a bias alone, and scale and bn layers whose
\* first blob has rank 2.
Templates ==
    { [name |-> ConvName,  dims |-> << <<2, 2, 1, 1>> >>],
      [name |-> DwName,    dims |-> << <<2, 1, 1, 2>> >>],
      [name |-> BnName,    dims |-> << <<2>>, <<2>>, <<1>> >>],
      [name |-> ScaleName, dims |-> << <<2>>, <<2>> >>],
      [name |-> FcName,    dims |-> << <<2, 2, 1, 1>>, <<2>> >>],
      [name |-> FcName,    dims |-> << <<2>> >>],
      [name |-> ScaleName, dims |-> << <<2, 2>>, <<2>> >>],
      [name |-> BnName,    dims |-> << <<2, 2>>, <<2>> >>],
      [name |-> ReluName,  dims |-> << >>] }

SeqsUpTo(S, n) == UNION { [1..m -> S] : m \in 0..n }

Init ==
    /\ layers \in { MkStream(t) : t \in SeqsUpTo(Templates, MaxLayers) }
    /\ InitRun

Spec == Init /\ [][Next]_vars

----------------------------------------------------------------------------
(* The inputs of SpecNames: convolutions under names that differ in "/",   *)
(* "_" or neither, each resolved by its own bias or by a bn and a scale     *)
(* layer.                                                                  *)

Conv1Dw == <<"c", "o", "n", "v", "1", "/", "d", "w">>

NameSet ==
    { <<"a", "/", "b">>, <<"a", "_", "b">>, <<"a", "b">>, Conv1Dw }

NamedGroup(name, kind) ==
    IF kind = "terminal"
    THEN << [name |-> name, dims |-> << <<2, 1, 1, 1>>, <<2>> >>] >>
    ELSE << [name |-> name,      dims |-> << <<2, 1, 1, 1>> >>],
            [name |-> BnName,    dims |-> << <<2>>, <<2>>, <<1>> >>],
            [name |-> ScaleName, dims |-> << <<2>>, <<2>> >>] >>

RECURSIVE Flatten(_)
Flatten(ss) == IF ss = <<>> THEN <<>> ELSE Head(ss) \o Flatten(Tail(ss))

NamedStreams ==
    { MkStream(Flatten(gs)) :
        gs \in SeqsUpTo({ NamedGroup(n, k) : n \in NameSet, k \in {"terminal", "fold"} },
                        MaxNamed) }

InitNames ==
    /\ layers \in NamedStreams
    /\ InitRun

SpecNames == InitNames /\ [][Next]_vars

----------------------------------------------------------------------------
(* The inputs of SpecFold: one convolution of every shape up to MaxDim in  *)
(* each axis, under a standard and under a depthwise name, followed by its *)
(* bn and scale layers.                                                    *)

FoldStreams ==
    { MkStream(<< [name |-> n, dims |-> << <<co, ci, kh, kw>> >>],
                  [name |-> BnName,    dims |-> << <<co>>, <<co>>, <<1>> >>],
                  [name |-> ScaleName, dims |-> << <<co>>, <<co>> >>] >>) :
        n \in {ConvName, DwName},
        co \in 1..MaxDim, ci \in 1..MaxDim, kh \in 1..MaxDim, kw \in 1..MaxDim }

InitFold ==
    /\ layers \in FoldStreams
    /\ InitRun

SpecFold == InitFold /\ [][Next]_vars

----------------------------------------------------------------------------
(* The inputs of SpecTerminal: one layer that holds a weight blob of every  *)
(* shape up to MaxDim in each axis directly followed by a bias blob, under   *)
(* a plain name, the name of the fully-connected layer and a depthwise name. *)

TerminalStreams ==
    { MkStream(<< [name |-> n, dims |-> << <<co, ci, kh, kw>>, <<co>> >>] >>) :
        n \in {ConvName, FcName, DwName},
        co \in 1..MaxDim, ci \in 1..MaxDim, kh \in 1..MaxDim, kw \in 1..MaxDim }

InitTerminal ==
    /\ layers \in TerminalStreams
    /\ InitRun

SpecTerminal == InitTerminal /\ [][Next]_vars

----------------------------------------------------------------------------
(* The inputs of SpecScenario: the depthwise layer conv2/dw with the 2x2    *)
(* kernels 1..4 and 5..8, followed by conv2/bn and conv2/scale whose        *)
(* statistics are drawn from small sets.                                   *)

Conv2Dw    == <<"c", "o", "n", "v", "2", "/", "d", "w">>
Conv2Bn    == <<"c", "o", "n", "v", "2", "/", "b", "n">>
Conv2Scale == <<"c", "o", "n", "v", "2", "/", "s", "c", "a", "l", "e">>

ScenarioOf(m, v, g, b) ==
    << [name |-> Conv2Dw,
        blobs |-> << [dim |-> <<2, 1, 2, 2>>, data |-> <<1, 2, 3, 4, 5, 6, 7, 8>>] >>],
       [name |-> Conv2Bn,
        blobs |-> << [dim |-> <<2>>, data |-> m], [dim |-> <<2>>, data |-> v] >>],
       [name |-> Conv2Scale,
        blobs |-> << [dim |-> <<2>>, data |-> g], [dim |-> <<2>>, data |-> b] >>] >>

ScenarioStreams ==
    { ScenarioOf(m, v, g, b) :
        m \in { <<0, 1>>, <<1, 0>>, <<1, 1>> },
        v \in { <<3, 0>>, <<0, 3>>, <<1, 1>>, <<-1, 1>> },
        g \in { <<2, 1>>, <<1, 2>>, <<1, 1>> },
        b \in { <<0, 1>>, <<1, 0>>, <<1, 1>> } }

InitScenario ==
    /\ layers \in ScenarioStreams
    /\ InitRun

SpecScenario == InitScenario /\ [][Next]_vars

----------------------------------------------------------------------------
(* The inputs of SpecPass: convolutions, statistics, a last layer and       *)
(* layers without blobs.  The loops of lines 67-71 run on without waiting,  *)
(* so a step that can be taken is taken.                                    *)

PassTemplates ==
    { [name |-> ConvName,  dims |-> << <<2, 2, 1, 1>> >>],
      [name |-> BnName,    dims |-> << <<2>>, <<2>>, <<1>> >>],
      [name |-> ScaleName, dims |-> << <<2>>, <<2>> >>],
      [name |-> FcName,    dims |-> << <<2, 2, 1, 1>>, <<2>> >>],
      [name |-> ReluName,  dims |-> << >>] }

\* The layers ls with one value less in every rank-4 blob: a file whose
\* blob data do not fill the blob's shape.
ShortData(ls) ==
    [j \in 1..Len(ls) |->
        [name  |-> ls[j].name,
         blobs |-> [k \in 1..Len(ls[j].blobs) |->
                      IF Len(ls[j].blobs[k].dim) = 4
                      THEN [dim |-> ls[j].blobs[k].dim, data |-> Tail(ls[j].blobs[k].data)]
                      ELSE ls[j].blobs[k]]]]

\* The layers ls with -1 for the first dimension of every rank-4 blob: a
\* file that leaves the dimension to be inferred from the data.
OpenDim(ls) ==
    [j \in 1..Len(ls) |->
        [name  |-> ls[j].name,
         blobs |-> [k \in 1..Len(ls[j].blobs) |->
                      IF Len(ls[j].blobs[k].dim) = 4
                      THEN [dim  |-> [ls[j].blobs[k].dim EXCEPT ![1] = -1],
                            data |-> ls[j].blobs[k].data]
                      ELSE ls[j].blobs[k]]]]

InitPass ==
    /\ layers \in { MkStream(t) : t \in SeqsUpTo(PassTemplates, MaxLayers) }
                 \cup { ShortData(MkStream(t)) : t \in SeqsUpTo(PassTemplates, MaxLayers) }
                 \cup { OpenDim(MkStream(t)) : t \in SeqsUpTo(PassTemplates, MaxLayers) }
    /\ InitRun

SpecPass == InitPass /\ [][Next]_vars /\ WF_vars(Next)

----------------------------------------------------------------------------
(* The inputs of SpecKinds: one convolution with its bn and scale layers,   *)
(* each of the three named as of a depthwise or of a standard convolution.  *)

DwBnName    == <<"c", "/", "d", "w", "/", "b", "n">>
DwScaleName == <<"c", "/", "d", "w", "/", "s", "c", "a", "l", "e">>

KindStreams ==
    { MkStream(<< [name |-> n, dims |-> << <<co, ci, kh, kw>> >>],
                  [name |-> bn, dims |-> << <<co>>, <<co>>, <<1>> >>],
                  [name |-> sc, dims |-> << <<co>>, <<co>> >>] >>) :
        n \in {ConvName, DwName}, bn \in {BnName, DwBnName}, sc \in {ScaleName, DwScaleName},
        co \in 1..MaxDim, ci \in 1..MaxDim, kh \in 1..MaxDim, kw \in 1..MaxDim }

InitKinds ==
    /\ layers \in KindStreams
    /\ InitRun

SpecKinds == InitKinds /\ [][Next]_vars

----------------------------------------------------------------------------
(* The inputs of SpecFrame: convolutions, bn layers of three and of four    *)
(* blobs and scale layers of three blobs.                                   *)

FrameTemplates ==
    { [name |-> ConvName,  dims |-> << <<2, 2, 1, 1>> >>],
      [name |-> BnName,    dims |-> << <<2>>, <<2>>, <<1>> >>],
      [name |-> BnName,    dims |-> << <<2>>, <<2>>, <<1>>, <<2>> >>],
      [name |-> ScaleName, dims |-> << <<2>>, <<2>>, <<2>> >>] }

InitFrame ==
    /\ layers \in { MkStream(t) : t \in SeqsUpTo(FrameTemplates, MaxLayers) }
    /\ InitRun

SpecFrame == InitFrame /\ [][Next]_vars

----------------------------------------------------------------------------
(* The inputs of SpecEmpty: one convolution with its bn and scale layers,   *)
(* where blobs may have a dimension 0 and so no data, and where the first   *)
(* blob of the bn or of the scale layer may have rank 2, so that no mean or *)
(* no gamma is stored.                                                      *)

EmptyStreams ==
    { MkStream(<< [name |-> n,         dims |-> << <<co, ci, 1, 1>> >>],
                  [name |-> BnName,    dims |-> << m, <<v>> >>],
                  [name |-> ScaleName, dims |-> << g, <<b>> >>] >>) :
        n \in {ConvName, DwName},
        co \in 0..MaxDim, ci \in 0..MaxDim,
        m \in { <<0>>, <<1>>, <<1, 1>> }, v \in 0..1,
        g \in { <<0>>, <<1>>, <<1, 1>> }, b \in 0..1 }

InitEmpty ==
    /\ layers \in EmptyStreams
    /\ InitRun

SpecEmpty == InitEmpty /\ [][Next]_vars

----------------------------------------------------------------------------
(* History.  wpos is the position <<layer, blob>> of the weight blob that  *)
(* weights was read from.  resolved has one record per pair of files       *)
(* written: kind (fold or terminal), src (the name of the layer the        *)
(* weight blob came from), stem (the name the file names were built from), *)
(* by (the layer of the resolving blob) and wat (wpos at that time).  The  *)
(* files of resolved[i] are writes[2i - 1] and writes[2i].                 *)

\* A blob is about to be processed.
Processing == status = "running" /\ ~AtEnd

\* The held weights have not been written yet.
Pending ==
    /\ weights # None
    /\ \A i \in 1..Len(resolved) : resolved[i].wat # wpos

LastResolved == resolved[Len(resolved)]

----------------------------------------------------------------------------
(* Claims under Spec. *)

\* C1: a beta blob processed while weights, mean, variance or gamma is
\* absent ends the run at that blob with a MissingStateError, no weight file
\* and no bias file is written for that layer, and no blob is processed
\* after the abort.
C1_MissingStateAborts ==
    [][ /\ status # "aborted"
        /\ (Processing /\ Role = "beta" /\ MissingCount > 0)
              => /\ status' = "aborted"
                 /\ error' = "MissingStateError"
                 /\ writes' = writes
                 /\ <<li', bi'>> = <<li, bi>> ]_vars

\* C2: a rank-4 blob that arrives while an unresolved weight tensor is held
\* aborts the run, and the held weights and layer name are not replaced.
C2_SecondWeightsAborts ==
    [][ (Processing /\ Role = "weights" /\ Pending)
           => /\ status' = "aborted"
              /\ weights' = weights
              /\ layer_name' = layer_name ]_vars

\* C3: after a terminal-bias blob resolves the held weights no weights are
\* held, and no weight blob is written a second time.
C3_TerminalResets ==
    [][ /\ (Processing /\ Role = "bias" /\ status' = "running") => weights' = None
        /\ Len(resolved') > Len(resolved)
              => \A i \in 1..Len(resolved) : resolved[i].wat # wpos ]_vars

\* C4: a fold leaves weights, mean, variance, gamma and beta all None, and
\* the weight blob it folds was not folded before.
C4_FoldResets ==
    [][ (Processing /\ Role = "beta" /\ status' = "running")
           => /\ weights' = None /\ mean' = None /\ variance' = None
              /\ gamma' = None /\ beta' = None
              /\ \A i \in 1..Len(resolved) :
                    resolved[i].kind = "fold" => resolved[i].wat # wpos ]_vars

\* A beta blob came right after a fold, with nothing stored in between, and
\* stopped the run instead of folding again.
C4_Witness ==
    /\ status = "aborted"
    /\ ~AtEnd
    /\ Role = "beta"
    /\ resolved # <<>>
    /\ LastResolved.kind = "fold"
    /\ weights = None /\ mean = None /\ variance = None /\ gamma = None
    /\ Len(writes) = 2

\* C5: every resolved convolution has exactly two files, both named after
\* the layer that carried its weight blob.
C5_FilesNamedBySource ==
    /\ Len(writes) = 2 * Len(resolved)
    /\ \A i \in 1..Len(resolved) :
          /\ writes[2 * i - 1].path = OutName(resolved[i].src, WExt)
          /\ writes[2 * i].path = OutName(resolved[i].src, BExt)

\* C7: a blob whose rank is neither 1 nor 4 aborts the run.
C7_OtherRankAborts ==
    [][ (Processing /\ Role = "other") => status' = "aborted" ]_vars

\* C8: files are written exactly when a beta or terminal-bias blob completes
\* a pending convolution, and then both files are written at once.
C8_WritesOnlyOnCompletion ==
    [][ Processing =>
          LET completes == \/ Role = "beta" /\ Pending /\ MissingCount = 0
                           \/ Role = "bias" /\ Pending
          IN  /\ completes => Len(writes') = Len(writes) + 2
              /\ ~completes => writes' = writes ]_vars

----------------------------------------------------------------------------
(* Claims under SpecNames. *)

\* Names of equal length that differ only where one has "/" and the other "_".
SlashVariant(a, b) ==
    /\ Len(a) = Len(b)
    /\ \A k \in 1..Len(a) : a[k] = b[k] \/ {a[k], b[k]} = {"/", "_"}

\* C6 as claimed: convolutions of different layer names have different
\* weight file names and different bias file names.
C6_DistinctNamesDistinctFiles ==
    \A i, j \in 1..Len(resolved) :
        resolved[i].src # resolved[j].src
           => /\ OutName(resolved[i].src, WExt) # OutName(resolved[j].src, WExt)
              /\ OutName(resolved[i].src, BExt) # OutName(resolved[j].src, BExt)

\* C6 as amended: files whose names were built from different layer names
\* are different files, unless the two names differ only by "/" against "_".
C6_DistinctUnlessVariant ==
    \A i, j \in 1..Len(resolved) :
        (resolved[i].stem # resolved[j].stem
            /\ ~SlashVariant(resolved[i].stem, resolved[j].stem))
           => /\ writes[2 * i - 1].path # writes[2 * j - 1].path
              /\ writes[2 * i].path # writes[2 * j].path

\* Two convolutions were written, one under a name with "/" and one under a
\* name that is no variant of it.
C6_Witness ==
    \E i, j \in 1..Len(resolved) :
        /\ \E k \in 1..Len(resolved[i].stem) : resolved[i].stem[k] = "/"
        /\ resolved[i].stem # resolved[j].stem
        /\ ~SlashVariant(resolved[i].stem, resolved[j].stem)
        /\ writes[2 * i - 1].path # writes[2 * j - 1].path

----------------------------------------------------------------------------
(* Claims under SpecFold. *)

\* scale_factor[c] = gamma[c] / sqrt(variance[c] + epsilon)
ScaleFactor(g, v) == IF g[1] = 0 THEN <<0, 0, 0>> ELSE <<0, g[1], v[1]>>

\* x * f for an input value x and a scale factor f.
TimesFactor(x, f) == IF x[1] * f[2] = 0 THEN <<0, 0, 0>> ELSE <<0, x[1] * f[2], f[3]>>

\* The scale factor of channel c (from 0) in the current state.
Factor(c) == ScaleFactor(gamma.data[c + 1], variance.data[c + 1])

\* A beta blob is being processed and the fold is written.
Folding == Processing /\ Role = "beta" /\ status' = "running"

\* C9: for held weights of shape (C_out, C_in, kH, kW) under a name that
\* does not end in "/dw", the weight tensor written has shape
\* (C_out, kH, kW, C_in), and its row-major element [o][h][w][i] is
\* input[o][i][h][w] * scale_factor[o].
C9_StandardLayout ==
    [][ (Folding /\ ~IsDepthwiseName(layer_name)) =>
          LET out == writes'[Len(writes) + 1]
              co  == weights.shape[1]
              ci  == weights.shape[2]
              kh  == weights.shape[3]
              kw  == weights.shape[4]
          IN  /\ out.shape = <<co, kh, kw, ci>>
              /\ Len(out.data) = co * kh * kw * ci
              /\ \A o \in 0..(co - 1), i \in 0..(ci - 1), h \in 0..(kh - 1), w \in 0..(kw - 1) :
                    out.data[((o * kh + h) * kw + w) * ci + i + 1]
                       = TimesFactor(weights.data[((o * ci + i) * kh + h) * kw + w + 1],
                                     Factor(o)) ]_vars

\* A standard convolution with more than one output channel, input channel
\* and kernel column was folded and written.
C9_Witness ==
    /\ resolved # <<>>
    /\ LastResolved.kind = "fold"
    /\ ~IsDepthwiseName(LastResolved.src)
    /\ writes[1].shape[1] > 1 /\ writes[1].shape[3] > 1 /\ writes[1].shape[4] > 1

\* C10: for held weights of shape (C, 1, kH, kW) under a name that ends in
\* "/dw", the weight tensor written has shape (kH, kW, C), and its
\* row-major element [h][w][c] is input[c][0][h][w] * scale_factor[c].
C10_DepthwiseLayout ==
    [][ (Folding /\ IsDepthwiseName(layer_name)) =>
          LET out == writes'[Len(writes) + 1]
              c   == weights.shape[1]
              kh  == weights.shape[3]
              kw  == weights.shape[4]
          IN  /\ weights.shape[2] = 1
              /\ out.shape = <<kh, kw, c>>
              /\ Len(out.data) = kh * kw * c
              /\ \A ch \in 0..(c - 1), h \in 0..(kh - 1), w \in 0..(kw - 1) :
                    out.data[(h * kw + w) * c + ch + 1]
                       = TimesFactor(weights.data[(ch * kh + h) * kw + w + 1],
                                     Factor(ch)) ]_vars

\* A depthwise convolution with more than one channel, kernel row and
\* kernel column was folded and written.
C10_Witness ==
    /\ resolved # <<>>
    /\ LastResolved.kind = "fold"
    /\ IsDepthwiseName(LastResolved.src)
    /\ writes[1].shape = <<2, 2, 2>>

----------------------------------------------------------------------------
(* Claims under SpecTerminal. *)

\* The values of a payload as float32 numbers, in the payload's order.
Flat(data) == [i \in 1..Len(data) |-> <<data[i], 0, 0>>]

\* C11: when a rank-4 blob is directly followed in its layer by a rank-1
\* blob and the layer name ends in neither "/bn" nor "/scale", the weight
\* file holds the weight blob's payload in its own order, unscaled, and the
\* bias file holds the bias blob's payload, also under a name in "/dw".
C11_TerminalPassThrough ==
    [][ (/\ Processing
         /\ bi > 1
         /\ Rank(Blob) = 1
         /\ Rank(Layer.blobs[bi - 1]) = 4
         /\ LastChars(Layer.name, 3) # <<"/", "b", "n">>
         /\ LastChars(Layer.name, 6) # <<"/", "s", "c", "a", "l", "e">>)
           => /\ status' = "running"
              /\ Len(writes') = Len(writes) + 2
              /\ writes'[Len(writes) + 1].data = Flat(Layer.blobs[bi - 1].data)
              /\ writes'[Len(writes) + 1].shape = Layer.blobs[bi - 1].dim
              /\ writes'[Len(writes) + 2].data = Flat(Blob.data) ]_vars

\* A layer named in "/dw" with a weight blob of more than one input channel
\* and kernel column was written by its bias blob.
C11_Witness ==
    /\ resolved # <<>>
    /\ LastResolved.kind = "terminal"
    /\ IsDepthwiseName(LastResolved.by)
    /\ writes[1].shape[2] > 1
    /\ writes[1].shape[4] > 1

----------------------------------------------------------------------------
(* More claims under SpecFold. *)

\* b - m * f for input values b and m and a scale factor f.
MinusTimesFactor(b, m, f) ==
    IF m[1] * f[2] = 0 THEN <<b[1], 0, 0>> ELSE <<b[1], 0 - m[1] * f[2], f[3]>>

\* The output channel (from 0) of element f (from 0) of the weight tensor a
\* fold writes: the first axis of (C_out, kH, kW, C_in), the last of
\* (kH, kW, C).
ChannelOf(f, shape) ==
    IF Len(shape) = 3 THEN f % shape[3]
    ELSE f \div (shape[2] * shape[3] * shape[4])

\* C12: in every fold, depthwise or standard, the bias written has one
\* value per channel, bias[c] = beta[c] - mean[c] * scale_factor[c], with
\* scale_factor[c] = gamma[c] / sqrt(variance[c] + epsilon), and every
\* weight written for output channel c is an input weight times that same
\* scale_factor[c].
C12_BiasFold ==
    [][ Folding =>
          LET outw == writes'[Len(writes) + 1]
              outb == writes'[Len(writes) + 2]
              n    == weights.shape[1]
          IN  /\ outb.shape = <<n>>
              /\ Len(outb.data) = n
              /\ \A c \in 0..(n - 1) :
                    outb.data[c + 1]
                       = MinusTimesFactor(<<Blob.data[c + 1], 0, 0>>, mean.data[c + 1], Factor(c))
              /\ \A f \in 1..Len(outw.data) :
                    \E x \in 1..Len(weights.data) :
                       outw.data[f]
                          = TimesFactor(weights.data[x], Factor(ChannelOf(f - 1, outw.shape))) ]_vars

\* A depthwise convolution of more than one channel and more than one
\* weight per channel was folded and written.
C12_Witness ==
    /\ resolved # <<>>
    /\ LastResolved.kind = "fold"
    /\ IsDepthwiseName(LastResolved.src)
    /\ Len(writes[2].data) > 1
    /\ Len(writes[1].data) > Len(writes[2].data)

----------------------------------------------------------------------------
(* Claims under SpecScenario. *)

\* 1 / epsilon, for epsilon = 1e-5.
EpsInv == 100000

\* A thousand times the square of k / sqrt(v + epsilon), rounded down.
Sq1000(k, v) == (k * k * EpsInv * 1000) \div (EpsInv * v + 1)

\* A thousand times the square of n / d, rounded down.
Sq1000Of(n, d) ==
    IF (n * n) \div d >= 2000000 THEN (((n * n) \div d) \div d) * 1000
    ELSE (((n * n) \div d) * 1000) \div d

Abs(x) == IF x < 0 THEN 0 - x ELSE x

\* The number x = c + k / sqrt(v + epsilon) is approximately n / d: the
\* part k / sqrt(v + epsilon) has the sign of n / d - c and its square is
\* within a thousandth of the square of n / d - c.
Near(x, n, d) ==
    LET t == n - x[1] * d
    IN  IF x[2] = 0 THEN t = 0
        ELSE /\ (x[2] > 0) = (t > 0)
             /\ t # 0
             /\ Abs(Sq1000(x[2], x[3]) - Sq1000Of(t, d)) <= Sq1000Of(t, d) \div 1000

\* The run on conv2/dw with mean [0, 1], variance [3, 0], gamma [2, 1] and
\* beta [0, 1] has written its two files.
ScenarioDone ==
    /\ layers = ScenarioOf(<<0, 1>>, <<3, 0>>, <<2, 1>>, <<0, 1>>)
    /\ Len(writes) = 2

\* The scale factors of the scenario by the formula of the specification.
ScenarioFactor(c) ==
    ScaleFactor(<<(<<2, 1>>)[c + 1], 0, 0>>, <<(<<3, 0>>)[c + 1], 0, 0>>)

\* What C13 says of the scenario, but for the second scale factor and the
\* second bias: the weights written are the input weights times the scale
\* factors of the formula, the shape is (2, 2, 2), the first scale factor
\* and output[0][0][0] are about 1.1547 and the first bias is 0.
ScenarioCommon ==
    /\ writes[1].shape = <<2, 2, 2>>
    /\ writes[1].data[1] = TimesFactor(<<1, 0, 0>>, ScenarioFactor(0))
    /\ writes[1].data[2] = TimesFactor(<<5, 0, 0>>, ScenarioFactor(1))
    /\ Near(ScenarioFactor(0), 11547, 10000)
    /\ Near(writes[1].data[1], 11547, 10000)
    /\ Near(writes[2].data[1], 0, 1)

\* C13 as claimed: in the scenario the scale factors are about
\* [1.1547, 1000.0], the output shape is (2, 2, 2), output[0][0][0] is about
\* 1.1547 and the bias is about [0, -999].
C13_ScenarioAsClaimed ==
    ScenarioDone =>
        /\ ScenarioCommon
        /\ Near(ScenarioFactor(1), 1000, 1)
        /\ Near(writes[2].data[2], 0 - 999, 1)

\* C13 as amended: in the scenario the scale factors are about
\* [1.1547, 316.23], the output shape is (2, 2, 2), output[0][0][0] is about
\* 1.1547 and the bias is about [0, -315.23].
C13_ScenarioAmended ==
    ScenarioDone =>
        /\ ScenarioCommon
        /\ Near(ScenarioFactor(1), 31623, 100)
        /\ Near(writes[2].data[2], 0 - 31523, 100)

\* The scenario has run to its end.
C13_Witness == ScenarioDone /\ status = "done"

----------------------------------------------------------------------------
(* More claims under SpecNames. *)

\* The path p is the name n with every "/" turned into "_" and every other
\* character kept, followed by the extension ext.
Sanitized(p, n, ext) ==
    /\ Len(p) = Len(n) + Len(ext)
    /\ \A k \in 1..Len(n) : p[k] = (IF n[k] = "/" THEN "_" ELSE n[k])
    /\ \A k \in 1..Len(ext) : p[Len(n) + k] = ext[k]

\* C14: the two files of a convolution are named by its layer name with
\* every "/" replaced by "_", followed by "_w.bin" and "_b.bin"; the files
\* of "conv1/dw" are "conv1_dw_w.bin" and "conv1_dw_b.bin".
C14_Sanitized ==
    \A i \in 1..Len(resolved) :
        /\ Sanitized(writes[2 * i - 1].path, resolved[i].stem, <<"_", "w", ".", "b", "i", "n">>)
        /\ Sanitized(writes[2 * i].path, resolved[i].stem, <<"_", "b", ".", "b", "i", "n">>)
        /\ resolved[i].stem = <<"c", "o", "n", "v", "1", "/", "d", "w">>
              => /\ writes[2 * i - 1].path
                      = <<"c", "o", "n", "v", "1", "_", "d", "w", "_", "w", ".", "b", "i", "n">>
                 /\ writes[2 * i].path
                      = <<"c", "o", "n", "v", "1", "_", "d", "w", "_", "b", ".", "b", "i", "n">>

\* The files of "conv1/dw" were written, once by a fold and once by a
\* terminal bias.
C14_Witness ==
    /\ Len(resolved) = 2
    /\ resolved[1].stem = <<"c", "o", "n", "v", "1", "/", "d", "w">>
    /\ resolved[2].stem = <<"c", "o", "n", "v", "1", "/", "d", "w">>
    /\ resolved[1].kind # resolved[2].kind

----------------------------------------------------------------------------
(* Claims under SpecPass. *)

\* The positions of the blobs of the input, and the order of the file.
BlobPositions ==
    UNION { { <<j, k>> : k \in 1..Len(layers[j].blobs) } : j \in 1..Len(layers) }

Before(p, q) == p[1] < q[1] \/ (p[1] = q[1] /\ p[2] < q[2])

EndPos == <<Len(layers) + 1, 1>>

\* q is the blob that follows p in the file, or the end if none follows.
Follows(p, q) ==
    /\ Before(p, q)
    /\ q \in BlobPositions \/ q = EndPos
    /\ \A r \in BlobPositions : ~(Before(p, r) /\ Before(r, q))

\* C15: the run starts at the first blob of the file; every step that does
\* not abort goes from a blob to the blob that follows it in the file, so
\* that layers without blobs are passed without a change; past the last blob
\* the run is done, with nothing else changed; and every run ends, done
\* unless it was aborted.
C15_OnePass ==
    /\ \A r \in BlobPositions : ~Before(r, <<li, bi>>)
    /\ [](<<li, bi>> \in BlobPositions \/ <<li, bi>> = EndPos)
    /\ [][ status = "running" /\ <<li, bi>> \in BlobPositions
              => \/ status' = "aborted" /\ <<li', bi'>> = <<li, bi>>
                 \/ status' = "running" /\ Follows(<<li, bi>>, <<li', bi'>>) ]_vars
    /\ [][ status = "running" /\ <<li, bi>> = EndPos
              => /\ status' = "done"
                 /\ <<li', bi'>> = EndPos
                 /\ UNCHANGED <<layer_name, weights, mean, variance, gamma, writes>> ]_vars
    /\ [][ status # "running" => status' = status ]_vars
    /\ [](status = "done" => <<li, bi>> = EndPos)
    /\ <>(status = "done" \/ status = "aborted")

\* A run is done whose file has a layer without blobs between two layers
\* with blobs, and which has written files.
C15_Witness ==
    /\ status = "done"
    /\ writes # <<>>
    /\ \E j \in 2..(Len(layers) - 1) :
          /\ layers[j].blobs = <<>>
          /\ layers[j - 1].blobs # <<>>
          /\ layers[j + 1].blobs # <<>>

----------------------------------------------------------------------------
(* Claims under SpecKinds. *)

\* The name of the layer that carried the held weight blob.
WeightLayerName == layers[wpos[1]].name

\* C16: when beta arrives for held weights of shape (C_out, C_in, kH, kW),
\* the depthwise rule is applied if the name of the layer that carried the
\* weights ends in "/dw" (the fold is written in shape (kH, kW, C_out), or
\* fails if C_in is not 1), and the standard rule otherwise (the fold is
\* written in shape (C_out, kH, kW, C_in)), whatever the names of the bn and
\* scale layers.
C16_RuleByWeightLayer ==
    [][ (Processing /\ Role = "beta" /\ weights # None) =>
          LET out == writes'[Len(writes) + 1]
              co  == weights.shape[1]
              ci  == weights.shape[2]
              kh  == weights.shape[3]
              kw  == weights.shape[4]
          IN  IF LastChars(WeightLayerName, 3) = <<"/", "d", "w">>
              THEN IF ci = 1 THEN status' = "running" /\ out.shape = <<kh, kw, co>>
                             ELSE status' = "aborted"
              ELSE status' = "running" /\ out.shape = <<co, kh, kw, ci>> ]_vars

\* A convolution that is not depthwise was folded on the beta of a scale
\* layer named as of a depthwise one, after a bn layer named as of a
\* depthwise one.
C16_Witness ==
    /\ resolved # <<>>
    /\ LastResolved.kind = "fold"
    /\ LastResolved.src = <<"c">>
    /\ LastResolved.by = <<"c", "/", "d", "w", "/", "s", "c", "a", "l", "e">>
    /\ layers[2].name = <<"c", "/", "d", "w", "/", "b", "n">>
    /\ writes[1].shape[2] > 1

----------------------------------------------------------------------------
(* Claims under SpecFrame. *)

\* The blob being processed has rank 1 and ordinal k in a layer whose name
\* ends in suffix.
StatBlob(suffix, k) ==
    /\ Processing
    /\ Len(Blob.dim) = 1
    /\ LastChars(Layer.name, Len(suffix)) = suffix
    /\ bi - 1 = k

\* The rank-1 array of the blob being processed.
BlobArray == [shape |-> <<Len(Blob.data)>>, data |-> Flat(Blob.data)]

\* C17: a rank-1 blob of ordinal 2 or higher in a layer named ".../bn" or
\* ".../scale" changes none of the held weights, the pending layer name,
\* mean, variance and gamma and writes no file; a mean blob (ordinal 0 of
\* ".../bn") changes only mean, a variance blob (ordinal 1 of ".../bn") only
\* variance, a gamma blob (ordinal 0 of ".../scale") only gamma.
C17_FrameEffects ==
    [][ /\ (\E k \in 2..(bi - 1) :
                StatBlob(<<"/", "b", "n">>, k) \/ StatBlob(<<"/", "s", "c", "a", "l", "e">>, k))
            => /\ status' = "running"
               /\ UNCHANGED <<weights, layer_name, mean, variance, gamma, writes>>
        /\ StatBlob(<<"/", "b", "n">>, 0)
            => /\ status' = "running"
               /\ mean' = BlobArray
               /\ UNCHANGED <<weights, layer_name, variance, gamma, writes>>
        /\ StatBlob(<<"/", "b", "n">>, 1)
            => /\ status' = "running"
               /\ variance' = BlobArray
               /\ UNCHANGED <<weights, layer_name, mean, gamma, writes>>
        /\ StatBlob(<<"/", "s", "c", "a", "l", "e">>, 0)
            => /\ status' = "running"
               /\ gamma' = BlobArray
               /\ UNCHANGED <<weights, layer_name, mean, variance, writes>> ]_vars

\* A bn layer of four blobs was passed while weights, mean and variance
\* were held, the fold was written, and the third blob of the scale layer
\* was passed after it.
C17_Witness ==
    /\ status = "done"
    /\ Len(layers) = 3
    /\ Len(layers[2].blobs) = 4
    /\ Len(layers[3].blobs) = 3
    /\ Len(writes) = 2

----------------------------------------------------------------------------
(* More claims under Spec. *)

\* The position <<layer, blob>> of the blob a held rank-1 array was read
\* from: every value of the input carries the position of its blob.
Origin(t) == << t.data[1][1] \div 1000, (t.data[1][1] % 1000) \div 100 >>

\* C18: in every fold, the mean, the variance and the gamma that are used
\* come from blobs that were read after the weight blob that is folded.
C18_FreshStatistics ==
    [][ Folding => /\ Before(wpos, Origin(mean))
                   /\ Before(wpos, Origin(variance))
                   /\ Before(wpos, Origin(gamma)) ]_vars


\* The path p without its last six characters, and those six characters.
StemOf(p) == SubSeq(p, 1, Len(p) - 6)
ExtOf(p) == SubSeq(p, Len(p) - 5, Len(p))

\* The files written so far are pairs: a "_w.bin" file, then the "_b.bin"
\* file of the same stem.
Paired(ws) ==
    /\ Len(ws) % 2 = 0
    /\ \A i \in 1..(Len(ws) \div 2) :
          /\ ExtOf(ws[2 * i - 1].path) = <<"_", "w", ".", "b", "i", "n">>
          /\ ExtOf(ws[2 * i].path) = <<"_", "b", ".", "b", "i", "n">>
          /\ StemOf(ws[2 * i - 1].path) = StemOf(ws[2 * i].path)

\* C19: the files written are at all times pairs of a "_w.bin" file followed
\* by the "_b.bin" file of the same stem; one blob writes no file or one
\* such pair, after the files written before; and a rank-1 blob of a layer
\* that is neither ".../bn" nor ".../scale", arriving while no weights are
\* held, writes no file.
C19_WritesPaired ==
    /\ [] Paired(writes)
    /\ [][ /\ Len(writes') \in {Len(writes), Len(writes) + 2}
           /\ SubSeq(writes', 1, Len(writes)) = writes ]_vars
    /\ [][ (/\ Processing
            /\ Len(Blob.dim) = 1
            /\ LastChars(Layer.name, 3) # <<"/", "b", "n">>
            /\ LastChars(Layer.name, 6) # <<"/", "s", "c", "a", "l", "e">>
            /\ weights = None)
              => writes' = writes ]_vars

====
